---- MODULE Spec2Model ----
(***************************************************************************)
(* Model of the offer-parser message pipeline (src/index.ts, final         *)
(* variant, lines 214-491): analyzeMessageWithOpenAI, doesItemMeetCriteria,*)
(* sendReservationMessage and main.messageHandler.                         *)
(*                                                                         *)
(* JavaScript values are tagged records; strings are sequences of UTF-16   *)
(* code units, so that toLowerCase, trim and includes are computed.        *)
(***************************************************************************)
EXTENDS Integers, Sequences, FiniteSets, TLC

(***************************************************************************)
(* JavaScript values                                                       *)
(***************************************************************************)
Undefined == [t |-> "undefined"]
Null == [t |-> "null"]
Num(n) == [t |-> "number", n |-> n]
Str(s) == [t |-> "string", s |-> s]
Bool(b) == [t |-> "boolean", b |-> b]
\* the exception a call raises, as a value of the model
Throw == [t |-> "throw"]

\* an object with the five keys of ParsedItem; a key the object lacks holds
\* Undefined
ParsedItem(name, cat, price, loc, free) ==
    [t |-> "object", item_name |-> name, category |-> cat, price |-> price,
     location |-> loc, is_free |-> free]

\* ToBoolean of the language: undefined, null, false, 0 and "" are falsy
Truthy(v) ==
    CASE v.t = "undefined" -> FALSE
      [] v.t = "null" -> FALSE
      [] v.t = "boolean" -> v.b
      [] v.t = "number" -> v.n # 0
      [] v.t = "string" -> Len(v.s) > 0
      [] OTHER -> TRUE

\* a && b and a || b return one of their operands
JsAnd(a, b) == IF Truthy(a) THEN b ELSE a
JsOr(a, b) == IF Truthy(a) THEN a ELSE b

\* property read v[key] on a non-nullish value: a primitive has none of
\* the keys
GetField(v, key) == IF v.t = "object" THEN v[key] ELSE Undefined

(***************************************************************************)
(* String primitives                                                       *)
(***************************************************************************)
\* String.prototype.toLowerCase on one code unit: Latin A-Z and Cyrillic
\* U+0410..U+042F move up by 32, U+0400..U+040F by 80
LowerUnit(c) ==
    IF c >= 65 /\ c <= 90 THEN c + 32
    ELSE IF c >= 1040 /\ c <= 1071 THEN c + 32
    ELSE IF c >= 1024 /\ c <= 1039 THEN c + 80
    ELSE c

toLowerCase(s) == [i \in 1..Len(s) |-> LowerUnit(s[i])]

\* String.prototype.includes
includes(s, sub) ==
    \E i \in 0..(Len(s) - Len(sub)) : SubSeq(s, i + 1, i + Len(sub)) = sub

\* white space and line terminators that trim removes
IsWhiteSpace(c) == c \in {9, 10, 11, 12, 13, 32, 160}

RECURSIVE trimStart(_)
trimStart(s) ==
    IF s = <<>> THEN <<>>
    ELSE IF IsWhiteSpace(Head(s)) THEN trimStart(Tail(s))
    ELSE s

RECURSIVE trimEnd(_)
trimEnd(s) ==
    IF s = <<>> THEN <<>>
    ELSE IF IsWhiteSpace(s[Len(s)]) THEN trimEnd(SubSeq(s, 1, Len(s) - 1))
    ELSE s

trim(s) == trimEnd(trimStart(s))

(***************************************************************************)
(* Literals of doesItemMeetCriteria                                        *)
(***************************************************************************)
\* "limassol"
S_limassol ==
    << 108, 105, 109, 97, 115, 115, 111, 108 >>
\* "limassol" in Cyrillic
S_limassol_ru ==
    << 1083, 1080, 1084, 1072, 1089, 1089, 1086, 1083 >>
\* "tv stand"
S_tv_stand ==
    << 116, 118, 32, 115, 116, 97, 110, 100 >>
\* "tumbochka" in Cyrillic
S_tumbochka ==
    << 1090, 1091, 1084, 1073, 1086, 1095, 1082, 1072 >>
\* "televizor" in Cyrillic
S_televizor ==
    << 1090, 1077, 1083, 1077, 1074, 1080, 1079, 1086, 1088 >>
\* "furniture"
S_furniture ==
    << 102, 117, 114, 110, 105, 116, 117, 114, 101 >>
\* "electronics"
S_electronics ==
    << 101, 108, 101, 99, 116, 114, 111, 110, 105, 99, 115 >>
\* "clothing"
S_clothing ==
    << 99, 108, 111, 116, 104, 105, 110, 103 >>
\* "other"
S_other ==
    << 111, 116, 104, 101, 114 >>

\* price < 40
maxPrice == 40

(***************************************************************************)
(* doesItemMeetCriteria                                                    *)
(***************************************************************************)
\* the price check with an inclusive upper bound
priceIsRight_inclusive(item) ==
    LET price == GetField(item, "price")
    IN  JsOr(Bool(price.t = "number" /\ price.n <= maxPrice),
             GetField(item, "is_free"))

\* (typeof price === 'number' && price < 40) || item.is_free
priceIsRight(item) ==
    LET price == GetField(item, "price")
    IN  JsOr(Bool(price.t = "number" /\ price.n < maxPrice),
             GetField(item, "is_free"))

\* the category check made case-insensitive
categoryIsRight_nocase(item) ==
    LET category == GetField(item, "category")
    IN  Bool(category.t = "string" /\ toLowerCase(category.s) = S_furniture)

\* category === 'furniture'
categoryIsRight(item) == Bool(GetField(item, "category") = Str(S_furniture))

\* the lookup without the optional chain: a TypeError for a nullish v too
OptLowerIncludes_nochain(v, sub) ==
    IF v.t # "string" THEN Throw
    ELSE Bool(includes(toLowerCase(v.s), sub))

\* v?.toLowerCase().includes(sub): undefined for a nullish v, a TypeError
\* for a v that is no string
OptLowerIncludes(v, sub) ==
    IF v.t \in {"undefined", "null"} THEN Undefined
    ELSE IF v.t # "string" THEN Throw
    ELSE Bool(includes(toLowerCase(v.s), sub))

\* v.toLowerCase().includes(sub) without the optional chain
LowerIncludes(v, sub) ==
    IF v.t # "string" THEN Throw
    ELSE Bool(includes(toLowerCase(v.s), sub))

\* the location check with the Latin spelling only
locationIsRight_latin(item) ==
    OptLowerIncludes(GetField(item, "location"), S_limassol)

locationIsRight(item) ==
    LET location == GetField(item, "location")
        a == OptLowerIncludes(location, S_limassol)
    IN  IF a = Throw THEN Throw
        ELSE IF Truthy(a) THEN a
        ELSE OptLowerIncludes(location, S_limassol_ru)

\* the name check without toLowerCase
nameIsRight_nolower(item) ==
    LET item_name == GetField(item, "item_name")
    IN  IF ~Truthy(item_name) THEN item_name
        ELSE IF item_name.t # "string" THEN Throw
        ELSE Bool( \/ includes(item_name.s, S_tv_stand)
                   \/ includes(item_name.s, S_tumbochka)
                   \/ includes(item_name.s, S_televizor) )

nameIsRight(item) ==
    LET item_name == GetField(item, "item_name")
        a == LowerIncludes(item_name, S_tv_stand)
        b == LowerIncludes(item_name, S_tumbochka)
        c == LowerIncludes(item_name, S_televizor)
    IN  IF ~Truthy(item_name) THEN item_name
        ELSE IF a = Throw THEN Throw
        ELSE JsOr(a, JsOr(b, c))

\* the four constants are evaluated before the return, so a TypeError of
\* any of them is the outcome of the call; destructuring null or undefined
\* raises as well
doesItemMeetCriteria(item) ==
    IF item.t \in {"undefined", "null"} THEN Throw
    ELSE IF locationIsRight(item) = Throw \/ nameIsRight(item) = Throw
    THEN Throw
    ELSE Bool(Truthy(JsAnd(JsAnd(JsAnd(priceIsRight(item),
                                       categoryIsRight(item)),
                                 locationIsRight(item)),
                           nameIsRight(item))))

(***************************************************************************)
(* analyzeMessageWithOpenAI                                                *)
(***************************************************************************)
\* A non-empty response text, kept as what JSON.parse makes of it: a text
\* that is no JSON document (valid = FALSE) or the value it denotes.
JsonText(valid, value) == [t |-> "json", valid |-> valid, value |-> value]

JSONparse(content) == IF content.valid THEN content.value ELSE Throw

\* Outcomes of openai.chat.completions.create: the promise rejects
\* (transport error, timeout), or it resolves to a response whose
\* choices[0]?.message?.content is the given value.
Rejected == [k |-> "rejected"]
Resolved(content) == [k |-> "resolved", content |-> content]

\* the blank check without the trim
isBlank_notrim(messageText) == ~Truthy(messageText)

\* !messageText || !messageText.trim()
isBlank(messageText) ==
    \/ ~Truthy(messageText)
    \/ trim(messageText.s) = <<>>

\* the value the promise of analyzeMessageWithOpenAI resolves to once the
\* oracle call has the given outcome (try block and catch)
analyzeResponse(response) ==
    IF response.k = "rejected" THEN Null
    ELSE LET result == response.content
         IN  IF Truthy(result)
             THEN IF JSONparse(result) = Throw THEN Null
                  ELSE JSONparse(result)
             ELSE Null

(***************************************************************************)
(* Inputs                                                                  *)
(***************************************************************************)
\* longest message text of the extraction specification
MaxTextLen == 2

\* code units of the message texts: space, line feed, "a"
TextUnits == {32, 10, 97}

RECURSIVE SeqsUpTo(_, _)
SeqsUpTo(S, n) ==
    IF n = 0 THEN {<<>>}
    ELSE LET shorter == SeqsUpTo(S, n - 1)
         IN  shorter \cup {Append(s, c) : s \in shorter, c \in S}

\* message.text: missing, or any text up to MaxTextLen
Texts == {Undefined} \cup {Str(s) : s \in SeqsUpTo(TextUnits, MaxTextLen)}

SampleNames ==
    { Null, Str(<<>>),
      \* "Old TV Stand"
      Str(<< 79, 108, 100, 32, 84, 86, 32, 83, 116, 97, 110, 100 >>),
      \* "Coffee Table"
      Str(<< 67, 111, 102, 102, 101, 101, 32, 84, 97, 98, 108, 101 >>),
      \* "tumbochka pod televizor" in Cyrillic
      Str(<< 1090, 1091, 1084, 1073, 1086, 1095, 1082, 1072, 32, 1087,
             1086, 1076, 32, 1090, 1077, 1083, 1077, 1074, 1080, 1079,
             1086, 1088 >>),
      \* "TELEVIZOR" in Cyrillic capitals
      Str(<< 1058, 1045, 1051, 1045, 1042, 1048, 1047, 1054, 1056 >>),
      \* "tv"
      Str(<< 116, 118 >>) }

SampleCategories ==
    { Null, Str(S_furniture), Str(S_electronics), Str(S_clothing),
      Str(S_other),
      \* "Furniture"
      Str(<< 70, 117, 114, 110, 105, 116, 117, 114, 101 >>) }

SamplePrices ==
    { Null, Num(0), Num(20), Num(maxPrice - 1), Num(maxPrice), Num(50),
      \* "negotiable"
      Str(<< 110, 101, 103, 111, 116, 105, 97, 98, 108, 101 >>),
      \* "20"
      Str(<< 50, 48 >>) }

SampleLocations ==
    { Null, Str(<<>>),
      \* "Limassol, near the marina"
      Str(<< 76, 105, 109, 97, 115, 115, 111, 108, 44, 32, 110, 101, 97,
             114, 32, 116, 104, 101, 32, 109, 97, 114, 105, 110, 97 >>),
      \* "Nicosia"
      Str(<< 78, 105, 99, 111, 115, 105, 97 >>),
      \* "Limassol" in Cyrillic, capitalised
      Str(<< 1051, 1080, 1084, 1072, 1089, 1089, 1086, 1083 >>),
      \* "limasso"
      Str(<< 108, 105, 109, 97, 115, 115, 111 >>) }

\* the records of the schema's shape
Items ==
    { ParsedItem(n, c, p, l, Bool(f)) :
        n \in SampleNames, c \in SampleCategories, p \in SamplePrices,
        l \in SampleLocations, f \in BOOLEAN }

\* JSON values that are no record of the schema's shape
NonRecords ==
    { Null, Bool(FALSE), Bool(TRUE), Num(0), Num(42), Str(<<>>),
      Str(S_furniture),
      ParsedItem(Undefined, Undefined, Undefined, Undefined, Undefined),
      ParsedItem(Num(7), Str(S_furniture), Num(1), Num(7), Bool(TRUE)) }

\* outcomes of the extraction oracle
Responses ==
    {Rejected, Resolved(Undefined), Resolved(Null), Resolved(Str(<<>>)),
     Resolved(JsonText(FALSE, Null))}
    \cup {Resolved(JsonText(TRUE, v)) : v \in Items \cup NonRecords}

(***************************************************************************)
(* Configuration (process.env, read once)                                  *)
(***************************************************************************)
\* CHAT_IDS: broadcast channel 5 and direct chat 3
chatIds == {-1005, 3}

\* IGNORE_USER_ID
ignoreUserId == 9

(***************************************************************************)
(* messageHandler: identity and filters                                    *)
(***************************************************************************)
\* peerId of a message: missing, one of the three Api.Peer classes, or an
\* object of another class
NoPeer == [kind |-> "none", id |-> 0]
OtherPeer == [kind |-> "other", id |-> 0]
PeerChannel(id) == [kind |-> "PeerChannel", id |-> id]
PeerChat(id) == [kind |-> "PeerChat", id |-> id]
PeerUser(id) == [kind |-> "PeerUser", id |-> id]

\* toString of a non-negative integer, in code units
RECURSIVE toString(_)
toString(n) ==
    IF n < 10 THEN <<48 + n>>
    ELSE Append(toString(n \div 10), 48 + (n % 10))

RECURSIVE ParseDigits(_)
ParseDigits(s) ==
    IF s = <<>> THEN 0
    ELSE ParseDigits(SubSeq(s, 1, Len(s) - 1)) * 10 + (s[Len(s)] - 48)

\* BigInt of a decimal string with an optional leading "-"
BigInt(s) ==
    IF s # <<>> /\ Head(s) = 45 THEN 0 - ParseDigits(Tail(s))
    ELSE ParseDigits(s)

\* the peer is of one of the three recognised classes
isKnownPeer(peerId) == peerId.kind \in {"PeerChannel", "PeerChat", "PeerUser"}

\* chatId of a recognised peer: '-100' + channelId, '-' + chatId, userId
chatIdOf(peerId) ==
    CASE peerId.kind = "PeerChannel" ->
            BigInt(<<45, 49, 48, 48>> \o toString(peerId.id))
      [] peerId.kind = "PeerChat" -> BigInt(<<45>> \o toString(peerId.id))
      [] peerId.kind = "PeerUser" -> BigInt(toString(peerId.id))

\* the handler without the watch-list filter
isWatched_all(chatId) == TRUE

\* chatIds.includes(chatId)
isWatched(chatId) == chatId \in chatIds

\* message.senderId ? BigInt(message.senderId.toString()) : null
senderIdOf(message) ==
    IF message.senderId.t = "number"
    THEN Num(BigInt(toString(message.senderId.n)))
    ELSE Null

\* the handler without the ignored-sender filter
isIgnored_never(senderId) == FALSE

\* senderId === ignoreUserId
isIgnored(senderId) == senderId = Num(ignoreUserId)

\* the early returns without the check of a missing sender
returnsEarly_nosender(message) ==
    \/ message.peerId.kind = "none"
    \/ ~isKnownPeer(message.peerId)
    \/ ~isWatched(chatIdOf(message.peerId))
    \/ isIgnored(senderIdOf(message))

\* the handler returns before the extraction: no peer, an unrecognised
\* peer, an unwatched chat, no sender, the ignored sender
returnsEarly(message) ==
    \/ message.peerId.kind = "none"
    \/ ~isKnownPeer(message.peerId)
    \/ ~isWatched(chatIdOf(message.peerId))
    \/ ~Truthy(senderIdOf(message))
    \/ isIgnored(senderIdOf(message))

\* the handler sending for every parsed value
meetsCriteria_any(parsedData) == Bool(Truthy(parsedData))

\* if (parsedData) { if (doesItemMeetCriteria(parsedData)) send }
meetsCriteria(parsedData) ==
    IF Truthy(parsedData) THEN doesItemMeetCriteria(parsedData)
    ELSE Bool(FALSE)

(***************************************************************************)
(* Events                                                                  *)
(***************************************************************************)
\* events delivered in one process lifetime
NumEvents == 2

Events == 1..NumEvents

\* channel 5 is watched, user 4 is not, and group 1005 is taken for
\* channel 5: '-' + '1005' and '-100' + '5' are the same chat id
Peers ==
    {NoPeer, OtherPeer, PeerChannel(5), PeerChat(1005), PeerUser(4)}

SenderIds == {Undefined, Num(1), Num(2), Num(ignoreUserId)}

\* message.text of the events: " ", "a"
EventTexts == {Str(<<32>>), Str(<<97>>)}

Messages ==
    { [peerId |-> p, senderId |-> s, text |-> x] :
        p \in Peers, s \in SenderIds, x \in EventTexts }

\* the message of an event not yet delivered
NoMessage == [peerId |-> NoPeer, senderId |-> Undefined, text |-> Undefined]

\* outcomes of the extraction oracle for the events
EventResponses ==
    { Rejected, Resolved(Undefined), Resolved(JsonText(FALSE, Null)),
      Resolved(JsonText(TRUE, Num(42))),
      \* "Old TV Stand", furniture, 20, "Limassol", not free
      Resolved(JsonText(TRUE,
        ParsedItem(Str(<< 79, 108, 100, 32, 84, 86, 32, 83, 116, 97, 110,
                          100 >>),
                   Str(S_furniture), Num(20),
                   Str(<< 76, 105, 109, 97, 115, 115, 111, 108 >>),
                   Bool(FALSE)))),
      \* "Coffee Table", furniture, 10, "Limassol", not free
      Resolved(JsonText(TRUE,
        ParsedItem(Str(<< 67, 111, 102, 102, 101, 101, 32, 84, 97, 98, 108,
                          101 >>),
                   Str(S_furniture), Num(10),
                   Str(<< 76, 105, 109, 97, 115, 115, 111, 108 >>),
                   Bool(FALSE)))),
      \* a record whose location is the number 7
      Resolved(JsonText(TRUE,
        ParsedItem(Str(S_tv_stand), Str(S_furniture), Num(1), Num(7),
                   Bool(TRUE)))) }

(***************************************************************************)
(* buildReservationMessage                                                 *)
(***************************************************************************)
\* "for free"
S_for_free ==
    << 102, 111, 114, 32, 102, 114, 101, 101 >>
\* "for "
S_for ==
    << 102, 111, 114, 32 >>
\* "in "
S_in ==
    << 105, 110, 32 >>
\* the fallback message up to and including "("
S_fallback_head ==
    << 1055, 1088, 1080, 1074, 1077, 1090, 44, 32, 1091, 1074, 1080, 1076,
       1077, 1083, 32, 1090, 1074, 1086, 1077, 32, 1086, 1073, 1098, 1103,
       1074, 1083, 1077, 1085, 1080, 1077, 32, 40 >>
\* the fallback message from ")" on
S_fallback_tail ==
    << 41, 44, 32, 1074, 1089, 1077, 32, 1077, 1097, 1077, 32, 1072, 1082,
       1090, 1091, 1072, 1083, 1100, 1085, 1086, 63, 32, 1043, 1086, 1090,
       1086, 1074, 32, 1079, 1072, 1073, 1088, 1072, 1090, 1100, 46 >>

\* ${v} in a template literal, for the values a truthy field can hold
TemplateString(v) ==
    CASE v.t = "string" -> v.s
      [] v.t = "number" ->
            IF v.n < 0 THEN <<45>> \o toString(0 - v.n) ELSE toString(v.n)
      [] v.t = "boolean" ->
            IF v.b THEN <<116, 114, 117, 101>>
            ELSE <<102, 97, 108, 115, 101>>
      [] OTHER -> <<91, 111, 98, 106, 101, 99, 116, 32, 79, 98, 106, 101,
                    99, 116, 93>>

\* Array.prototype.join
RECURSIVE join(_, _)
join(parts, sep) ==
    IF parts = <<>> THEN <<>>
    ELSE IF Len(parts) = 1 THEN parts[1]
    ELSE parts[1] \o sep \o join(Tail(parts), sep)

\* the price looked at before the flag: a free item with a numeric price
\* gets "for <price>"
detailsOf_pricefirst(item) ==
    LET item_name == GetField(item, "item_name")
        price == GetField(item, "price")
        location == GetField(item, "location")
        namePart ==
            IF Truthy(item_name)
            THEN << <<34>> \o TemplateString(item_name) \o <<34>> >>
            ELSE <<>>
        pricePart ==
            IF price.t = "number"
            THEN <<S_for \o TemplateString(price)>>
            ELSE IF Truthy(GetField(item, "is_free")) THEN <<S_for_free>>
            ELSE <<>>
        locationPart ==
            IF Truthy(location) THEN <<S_in \o TemplateString(location)>>
            ELSE <<>>
    IN  namePart \o pricePart \o locationPart

\* the details array: the quoted name, the price part, the location
detailsOf(item) ==
    LET item_name == GetField(item, "item_name")
        price == GetField(item, "price")
        location == GetField(item, "location")
        namePart ==
            IF Truthy(item_name)
            THEN << <<34>> \o TemplateString(item_name) \o <<34>> >>
            ELSE <<>>
        pricePart ==
            IF Truthy(GetField(item, "is_free")) THEN <<S_for_free>>
            ELSE IF price.t = "number"
            THEN <<S_for \o TemplateString(price)>>
            ELSE <<>>
        locationPart ==
            IF Truthy(location) THEN <<S_in \o TemplateString(location)>>
            ELSE <<>>
    IN  namePart \o pricePart \o locationPart

\* details.join(' ')
detailsString(item) == join(detailsOf(item), <<32>>)

\* the message returned after the try block
fallbackMessage(item) ==
    Str(S_fallback_head \o detailsString(item) \o S_fallback_tail)

\* response.choices[0]?.message?.content?.trim(): undefined for a nullish
\* content, a TypeError for a content that is no string
generatedMessage(response) ==
    LET content == response.content
    IN  IF content.t \in {"undefined", "null"} THEN Undefined
        ELSE IF content.t # "string" THEN Throw
        ELSE Str(trim(content.s))

\* the generated text returned without the trim
buildResponse_notrim(item, response) ==
    IF response.k = "rejected" THEN fallbackMessage(item)
    ELSE IF generatedMessage(response) = Throw THEN fallbackMessage(item)
    ELSE IF Truthy(response.content) THEN response.content
    ELSE fallbackMessage(item)

\* the request made outside the try block
buildResponse_nocatch(item, response) ==
    IF response.k = "rejected" THEN Throw
    ELSE IF generatedMessage(response) = Throw THEN Throw
    ELSE IF Truthy(generatedMessage(response))
    THEN generatedMessage(response)
    ELSE fallbackMessage(item)

\* the value buildReservationMessage resolves to once the generation
\* request has the given outcome: the trimmed text if it is not empty, the
\* fallback after a rejection, a TypeError or an empty text
buildResponse(item, response) ==
    IF response.k = "rejected" THEN fallbackMessage(item)
    ELSE IF generatedMessage(response) = Throw THEN fallbackMessage(item)
    ELSE IF Truthy(generatedMessage(response))
    THEN generatedMessage(response)
    ELSE fallbackMessage(item)

\* records that break the schema: numbers for the texts, a text for the
\* flag
IllTypedItems ==
    { ParsedItem(Num(7), Str(S_furniture), Num(1), Num(7), Bool(FALSE)),
      ParsedItem(Undefined, Undefined, Undefined, Undefined, Undefined),
      ParsedItem(Bool(TRUE), Null, Num(0 - 5), Null, Str(S_other)) }

\* the items buildReservationMessage is called with
ComposeItems == Items \cup IllTypedItems

\* outcomes of the generation oracle
ComposeResponses ==
    {Rejected, Resolved(Undefined), Resolved(Null), Resolved(Num(5))}
    \cup {Resolved(Str(s)) : s \in SeqsUpTo(TextUnits, MaxTextLen)}

(***************************************************************************)
(* Configuration of the reply                                              *)
(***************************************************************************)
\* RESERVATION_MESSAGE, here its default:
\* "Hello, I'm interested in this item and would like to reserve it."
reservationMessage ==
    Str(<< 72, 101, 108, 108, 111, 44, 32, 73, 39, 109, 32, 105, 110, 116,
           101, 114, 101, 115, 116, 101, 100, 32, 105, 110, 32, 116, 104,
           105, 115, 32, 105, 116, 101, 109, 32, 97, 110, 100, 32, 119,
           111, 117, 108, 100, 32, 108, 105, 107, 101, 32, 116, 111, 32,
           114, 101, 115, 101, 114, 118, 101, 32, 105, 116, 46 >>)

(***************************************************************************)
(* State                                                                   *)
(***************************************************************************)
VARIABLES
    \* one call of analyzeMessageWithOpenAI followed by doesItemMeetCriteria
    xPc,        \* "call", "awaitOracle", "returned", "evaluated"
    xText,      \* messageText
    xCalls,     \* requests issued to openai.chat.completions.create
    xResponse,  \* the outcome of the request, Undefined before
    xParsed,    \* the value the call resolved to
    xMeets,     \* the result of doesItemMeetCriteria, a boolean or Throw
    \* the runs of messageHandler, one per event
    pc,         \* "idle", "awaitOracle", "awaitEntity", "awaitSend", "done"
    message,    \* event.message
    parsedData, \* the handler's parsedData, Undefined before the await
    calls,      \* calls of the extraction oracle made for the event
    sendIssued, \* client.sendMessage was called for the event
    delivered,  \* client.sendMessage resolved for the event
    outcome,    \* how the run ended: "none" while it has not
    sentText,   \* the message given to client.sendMessage, Undefined before
    composeCalls, \* calls of buildReservationMessage made for the event
    \* one call of buildReservationMessage
    bPc,        \* "call", "awaitOracle", "returned"
    bItem,      \* item
    bDetails,   \* detailsString, Undefined before it is built
    bResponse,  \* the outcome of the generation request, Undefined before
    bMessage    \* the value the call resolved to

xvars == <<xPc, xText, xCalls, xResponse, xParsed, xMeets>>

hvars ==
    <<pc, message, parsedData, calls, sendIssued, delivered, outcome,
      sentText, composeCalls>>

bvars == <<bPc, bItem, bDetails, bResponse, bMessage>>

vars == <<xvars, hvars, bvars>>

\* no event has been delivered
HIdle ==
    /\ pc = [e \in Events |-> "idle"]
    /\ message = [e \in Events |-> NoMessage]
    /\ parsedData = [e \in Events |-> Undefined]
    /\ calls = [e \in Events |-> 0]
    /\ sendIssued = [e \in Events |-> FALSE]
    /\ delivered = [e \in Events |-> FALSE]
    /\ outcome = [e \in Events |-> "none"]
    /\ sentText = [e \in Events |-> Undefined]
    /\ composeCalls = [e \in Events |-> 0]

\* no message is being analysed
XIdle ==
    /\ xPc = "call"
    /\ xText = Undefined
    /\ xCalls = 0
    /\ xResponse = Undefined
    /\ xParsed = Undefined
    /\ xMeets = Undefined

\* no reservation message is being built
BIdle ==
    /\ bPc = "call"
    /\ bItem = Undefined
    /\ bDetails = Undefined
    /\ bResponse = Undefined
    /\ bMessage = Undefined

(***************************************************************************)
(* Extraction and evaluation of one message                                *)
(***************************************************************************)
XInit ==
    /\ xPc = "call"
    /\ xText \in Texts
    /\ xCalls = 0
    /\ xResponse = Undefined
    /\ xParsed = Undefined
    /\ xMeets = Undefined
    /\ HIdle
    /\ BIdle

\* analyzeMessageWithOpenAI up to its await: the blank check, then the
\* request
XAnalyze ==
    /\ xPc = "call"
    /\ IF isBlank(xText)
       THEN /\ xPc' = "returned"
            /\ xParsed' = Null
            /\ xCalls' = xCalls
       ELSE /\ xPc' = "awaitOracle"
            /\ xCalls' = xCalls + 1
            /\ xParsed' = xParsed
    /\ UNCHANGED <<xText, xResponse, xMeets, hvars, bvars>>

\* the request settles and the call returns
XOracle ==
    /\ xPc = "awaitOracle"
    /\ \E response \in Responses :
        /\ xResponse' = response
        /\ xParsed' = analyzeResponse(response)
    /\ xPc' = "returned"
    /\ UNCHANGED <<xText, xCalls, xMeets, hvars, bvars>>

\* if (parsedData) { ... doesItemMeetCriteria(parsedData) ... }
XEvaluate ==
    /\ xPc = "returned"
    /\ Truthy(xParsed)
    /\ xMeets' = doesItemMeetCriteria(xParsed)
    /\ xPc' = "evaluated"
    /\ UNCHANGED <<xText, xCalls, xResponse, xParsed, hvars, bvars>>

XNext == XAnalyze \/ XOracle \/ XEvaluate

SpecItem == XInit /\ [][XNext]_vars

(***************************************************************************)
(* Composition of one reservation message                                  *)
(***************************************************************************)
BInit ==
    /\ bPc = "call"
    /\ bItem \in ComposeItems
    /\ bDetails = Undefined
    /\ bResponse = Undefined
    /\ bMessage = Undefined
    /\ XIdle
    /\ HIdle

\* buildReservationMessage up to its await: the details, the prompt, the
\* request
BBuild ==
    /\ bPc = "call"
    /\ bDetails' = Str(detailsString(bItem))
    /\ bPc' = "awaitOracle"
    /\ UNCHANGED <<bItem, bResponse, bMessage, xvars, hvars>>

\* the request settles and the call returns
BOracle ==
    /\ bPc = "awaitOracle"
    /\ \E response \in ComposeResponses :
        /\ bResponse' = response
        /\ bMessage' = buildResponse(bItem, response)
    /\ bPc' = "returned"
    /\ UNCHANGED <<bItem, bDetails, xvars, hvars>>

BNext == BBuild \/ BOracle

SpecCompose == BInit /\ [][BNext]_vars

(***************************************************************************)
(* main.messageHandler, one run per event.  The code between two awaits    *)
(* runs without interruption on the event loop, so each action is one      *)
(* such stretch.                                                           *)
(***************************************************************************)
Init ==
    /\ HIdle
    /\ XIdle
    /\ BIdle

\* send attempts issued and messages delivered to a sender
attempts(senderId) ==
    Cardinality({e \in Events :
        sendIssued[e] /\ senderIdOf(message[e]) = senderId})

deliveries(senderId) ==
    Cardinality({e \in Events :
        delivered[e] /\ senderIdOf(message[e]) = senderId})

\* The event is delivered and the handler runs to its first await: the
\* filters, then analyzeMessageWithOpenAI up to the oracle request.  A
\* blank text makes the call return null at once, and the handler ends in
\* its else branch.  Events are numbered in the order of their delivery.
Receive(e) ==
    /\ pc[e] = "idle"
    /\ \A d \in Events : d < e => pc[d] # "idle"
    /\ \E m \in Messages :
        /\ message' = [message EXCEPT ![e] = m]
        /\ IF returnsEarly(m)
           THEN /\ pc' = [pc EXCEPT ![e] = "done"]
                /\ outcome' = [outcome EXCEPT ![e] = "Dropped"]
                /\ UNCHANGED <<parsedData, calls>>
           ELSE IF isBlank(m.text)
           THEN /\ pc' = [pc EXCEPT ![e] = "done"]
                /\ outcome' = [outcome EXCEPT ![e] = "Dropped"]
                /\ parsedData' = [parsedData EXCEPT ![e] = Null]
                /\ UNCHANGED calls
           ELSE /\ pc' = [pc EXCEPT ![e] = "awaitOracle"]
                /\ calls' = [calls EXCEPT ![e] = @ + 1]
                /\ UNCHANGED <<parsedData, outcome>>
    /\ UNCHANGED <<sendIssued, delivered, sentText, composeCalls, xvars, bvars>>

\* the handler with a dispatch record that is not keyed by the sender: a
\* match is dropped once a send was issued for any other event
OracleSettles_sharedRecord(e) ==
    /\ pc[e] = "awaitOracle"
    /\ \E response \in EventResponses :
        LET data == analyzeResponse(response)
            meets == meetsCriteria(data)
        IN  /\ parsedData' = [parsedData EXCEPT ![e] = data]
            /\ IF meets = Throw
               THEN /\ pc' = [pc EXCEPT ![e] = "done"]
                    /\ outcome' = [outcome EXCEPT ![e] = "Raised"]
               ELSE IF /\ meets = Bool(TRUE)
                       /\ \A d \in Events \ {e} : ~sendIssued[d]
               THEN /\ pc' = [pc EXCEPT ![e] = "awaitEntity"]
                    /\ UNCHANGED outcome
               ELSE /\ pc' = [pc EXCEPT ![e] = "done"]
                    /\ outcome' = [outcome EXCEPT ![e] = "Dropped"]
    /\ UNCHANGED <<message, calls, sendIssued, delivered, sentText,
                   composeCalls, xvars, bvars>>

\* The oracle request settles: parsedData is set, the criteria are
\* evaluated and, for a match, sendReservationMessage runs up to
\* client.getEntity.  A TypeError of doesItemMeetCriteria leaves the
\* handler as a rejected promise.
OracleSettles(e) ==
    /\ pc[e] = "awaitOracle"
    /\ \E response \in EventResponses :
        LET data == analyzeResponse(response)
            meets == meetsCriteria(data)
        IN  /\ parsedData' = [parsedData EXCEPT ![e] = data]
            /\ IF meets = Throw
               THEN /\ pc' = [pc EXCEPT ![e] = "done"]
                    /\ outcome' = [outcome EXCEPT ![e] = "Raised"]
               ELSE IF meets = Bool(TRUE)
               THEN /\ pc' = [pc EXCEPT ![e] = "awaitEntity"]
                    /\ UNCHANGED outcome
               ELSE /\ pc' = [pc EXCEPT ![e] = "done"]
                    /\ outcome' = [outcome EXCEPT ![e] = "Dropped"]
    /\ UNCHANGED <<message, calls, sendIssued, delivered, sentText,
                   composeCalls, xvars, bvars>>

\* sendReservationMessage: client.getEntity settles; on success
\* client.sendMessage is called, on failure the catch logs and the run ends
EntitySettles(e) ==
    /\ pc[e] = "awaitEntity"
    /\ \E ok \in BOOLEAN :
        IF ok
        THEN /\ pc' = [pc EXCEPT ![e] = "awaitSend"]
             /\ sendIssued' = [sendIssued EXCEPT ![e] = TRUE]
             /\ sentText' = [sentText EXCEPT ![e] = reservationMessage]
             /\ UNCHANGED outcome
        ELSE /\ pc' = [pc EXCEPT ![e] = "done"]
             /\ outcome' = [outcome EXCEPT ![e] = "SendFailed"]
             /\ UNCHANGED <<sendIssued, sentText>>
    /\ UNCHANGED <<message, parsedData, calls, delivered, composeCalls,
                   xvars, bvars>>

\* client.sendMessage settles and a failure starts the send again
SendSettles_retry(e) ==
    /\ pc[e] = "awaitSend"
    /\ \E ok \in BOOLEAN :
        /\ delivered' = [delivered EXCEPT ![e] = ok]
        /\ IF ok
           THEN /\ outcome' = [outcome EXCEPT ![e] = "Dispatched"]
                /\ pc' = [pc EXCEPT ![e] = "done"]
           ELSE /\ pc' = [pc EXCEPT ![e] = "awaitEntity"]
                /\ UNCHANGED outcome
    /\ UNCHANGED <<message, parsedData, calls, sendIssued, sentText,
                   composeCalls, xvars, bvars>>

\* sendReservationMessage: client.sendMessage settles; a failure is caught
\* and logged
SendSettles(e) ==
    /\ pc[e] = "awaitSend"
    /\ \E ok \in BOOLEAN :
        /\ delivered' = [delivered EXCEPT ![e] = ok]
        /\ outcome' = [outcome EXCEPT
                         ![e] = IF ok THEN "Dispatched" ELSE "SendFailed"]
    /\ pc' = [pc EXCEPT ![e] = "done"]
    /\ UNCHANGED <<message, parsedData, calls, sendIssued, sentText,
                   composeCalls, xvars, bvars>>

Next ==
    \E e \in Events :
        \/ Receive(e)
        \/ OracleSettles(e)
        \/ EntitySettles(e)
        \/ SendSettles(e)

Spec == Init /\ [][Next]_vars

(***************************************************************************)
(* Properties                                                              *)
(***************************************************************************)
\* the run of event e passed the filters and its item met the criteria
Matching(e) ==
    /\ pc[e] # "idle"
    /\ ~returnsEarly(message[e])
    /\ meetsCriteria(parsedData[e]) = Bool(TRUE)

\* the run of event e is suspended in sendReservationMessage
AtSend(e) == pc[e] \in {"awaitEntity", "awaitSend"}

\* C1: two matching events of one sender whose runs are in flight together
\* issue no more than one send attempt to that sender.
C1_OneSendAttemptUnderRace ==
    \A e1, e2 \in Events :
        ( /\ e1 # e2
          /\ Matching(e1) /\ Matching(e2)
          /\ senderIdOf(message[e1]) = senderIdOf(message[e2])
          /\ AtSend(e1) /\ AtSend(e2) )
        => attempts(senderIdOf(message[e1])) <= 1

\* C2: no sender receives more than one reservation inquiry in one process
\* lifetime.
C2_AtMostOneDeliveryPerSender ==
    \A s \in SenderIds : deliveries(s) <= 1

\* C3: an event of the ignored sender ends Dropped, with no call of the
\* extraction oracle and no send.
C3_IgnoredSenderNeverExtracted ==
    \A e \in Events :
        (pc[e] # "idle" /\ message[e].senderId = Num(ignoreUserId))
        => /\ pc[e] = "done"
           /\ outcome[e] = "Dropped"
           /\ calls[e] = 0
           /\ ~sendIssued[e]

\* an event of the ignored sender in a watched chat, with a text, was
\* dropped
C3_Witness ==
    \E e \in Events :
        /\ pc[e] = "done"
        /\ message[e].senderId = Num(ignoreUserId)
        /\ message[e].peerId = PeerChannel(5)
        /\ message[e].text = Str(<<97>>)
        /\ outcome[e] = "Dropped"
        /\ calls[e] = 0

\* C4: an event whose chat id is not in the watch-list ends Dropped, with
\* no call of the extraction oracle and no send, whatever its sender and
\* text.
C4_UnwatchedChatDropped ==
    \A e \in Events :
        ( /\ pc[e] # "idle"
          /\ isKnownPeer(message[e].peerId)
          /\ chatIdOf(message[e].peerId) \notin chatIds )
        => /\ pc[e] = "done"
           /\ outcome[e] = "Dropped"
           /\ calls[e] = 0
           /\ ~sendIssued[e]

\* an event of an unwatched chat, from an ordinary sender and with a text,
\* was dropped
C4_Witness ==
    \E e \in Events :
        /\ pc[e] = "done"
        /\ message[e].peerId = PeerUser(4)
        /\ message[e].senderId = Num(1)
        /\ message[e].text = Str(<<97>>)
        /\ outcome[e] = "Dropped"
        /\ calls[e] = 0

\* C5: a send is issued for an event only if the extraction returned an
\* item and the criteria held on it; an absent extraction or a false
\* evaluation ends Dropped without a send.
C5_SendOnlyForAcceptedItem ==
    \A e \in Events :
        /\ sendIssued[e]
           => /\ Truthy(parsedData[e])
              /\ doesItemMeetCriteria(parsedData[e]) = Bool(TRUE)
        /\ ( /\ pc[e] = "done"
             /\ parsedData[e] # Undefined
             /\ \/ ~Truthy(parsedData[e])
                \/ doesItemMeetCriteria(parsedData[e]) = Bool(FALSE) )
           => (outcome[e] = "Dropped" /\ ~sendIssued[e])

\* one event was sent for, another had an item that failed the criteria
C5_Witness ==
    \E e, d \in Events :
        /\ sendIssued[e]
        /\ doesItemMeetCriteria(parsedData[e]) = Bool(TRUE)
        /\ pc[d] = "done"
        /\ Truthy(parsedData[d])
        /\ doesItemMeetCriteria(parsedData[d]) = Bool(FALSE)
        /\ outcome[d] = "Dropped"

\* the text is missing or made of white space only
AllWhite(text) ==
    \/ text.t \in {"undefined", "null"}
    \/ /\ text.t = "string"
       /\ \A i \in 1..Len(text.s) : IsWhiteSpace(text.s[i])

\* C6: for a missing, empty or white-space-only text the call returns null
\* and issues no request to the extraction oracle.
C6_BlankTextSkipsOracle ==
    (xPc # "call" /\ AllWhite(xText)) => (xParsed = Null /\ xCalls = 0)

\* a text of a space and a line feed returned null without a request
C6_Witness ==
    /\ xPc = "returned"
    /\ xText = Str(<<32, 10>>)
    /\ xParsed = Null
    /\ xCalls = 0

\* a record of the shape of ParsedItem: nullable strings, a price that is
\* a number, a string or null, a boolean is_free
IsSchemaRecord(v) ==
    /\ v.t = "object"
    /\ v.item_name.t \in {"string", "null"}
    /\ v.category.t \in {"string", "null"}
    /\ v.price.t \in {"number", "string", "null"}
    /\ v.location.t \in {"string", "null"}
    /\ v.is_free.t = "boolean"

\* the oracle call failed or its response is malformed: no content, a
\* content that is no JSON, or a JSON value that is no schema record
FailedOrMalformed(response) ==
    \/ response.k = "rejected"
    \/ /\ response.k = "resolved"
       /\ \/ ~Truthy(response.content)
          \/ /\ response.content.t = "json"
             /\ \/ ~response.content.valid
                \/ ~IsSchemaRecord(response.content.value)

\* C7: for a non-blank text, a failed oracle call or a malformed response
\* makes the call return no item: null, or at least a value the handler's
\* if (parsedData) takes for none.
C7_MalformedResponseIsAbsent ==
    ( /\ xPc \in {"returned", "evaluated"}
      /\ xCalls = 1
      /\ FailedOrMalformed(xResponse) )
    => ~Truthy(xParsed)

\* the oracle's response is a schema record with is_free true and a price
\* that is a number or a text
MarkedFree(response) ==
    /\ response.k = "resolved"
    /\ response.content.t = "json"
    /\ response.content.valid
    /\ IsSchemaRecord(response.content.value)
    /\ response.content.value.is_free = Bool(TRUE)
    /\ response.content.value.price.t \in {"number", "string"}

\* C8: when the oracle's response marks the item free, the returned item
\* has is_free true and price 0.
C8_FreeItemHasPriceZero ==
    ( /\ xPc \in {"returned", "evaluated"}
      /\ xCalls = 1
      /\ MarkedFree(xResponse) )
    => /\ xParsed.t = "object"
       /\ xParsed.is_free = Bool(TRUE)
       /\ xParsed.price = Num(0)

\* C9: doesItemMeetCriteria returns true exactly if its four checks are
\* all truthy, returns false for a record whose item_name, category or
\* location is null, and raises for no record of the schema.
C9_ConjunctionOfFourChecks ==
    (xPc = "evaluated" /\ IsSchemaRecord(xParsed))
    => /\ xMeets \in {Bool(TRUE), Bool(FALSE)}
       /\ xMeets = Bool( /\ Truthy(priceIsRight(xParsed))
                         /\ Truthy(categoryIsRight(xParsed))
                         /\ Truthy(locationIsRight(xParsed))
                         /\ Truthy(nameIsRight(xParsed)) )
       /\ ( \/ xParsed.item_name = Null
            \/ xParsed.category = Null
            \/ xParsed.location = Null )
          => xMeets = Bool(FALSE)

\* a free furniture item with a matching name and no location was
\* evaluated to false
C9_Witness ==
    /\ xPc = "evaluated"
    /\ IsSchemaRecord(xParsed)
    /\ xParsed.location = Null
    /\ xParsed.category = Str(S_furniture)
    /\ xParsed.is_free = Bool(TRUE)
    /\ Truthy(nameIsRight(xParsed))
    /\ xMeets = Bool(FALSE)

\* C10: with the category, location and name checks passed, the result is
\* true exactly if the price is a number below 40 or is_free is true.
C10_PriceBelowMaxOrFree ==
    ( /\ xPc = "evaluated"
      /\ IsSchemaRecord(xParsed)
      /\ Truthy(categoryIsRight(xParsed))
      /\ Truthy(locationIsRight(xParsed))
      /\ Truthy(nameIsRight(xParsed)) )
    => ( xMeets = Bool(TRUE)
         <=> \/ xParsed.price.t = "number" /\ xParsed.price.n < 40
             \/ xParsed.is_free = Bool(TRUE) )

\* an item passing the three other checks, priced "negotiable" and not
\* free, was evaluated to false
C10_Witness ==
    /\ xPc = "evaluated"
    /\ IsSchemaRecord(xParsed)
    /\ Truthy(categoryIsRight(xParsed))
    /\ Truthy(locationIsRight(xParsed))
    /\ Truthy(nameIsRight(xParsed))
    /\ xParsed.price.t = "string"
    /\ xParsed.is_free = Bool(FALSE)
    /\ xMeets = Bool(FALSE)

\* C11: an item whose category is not exactly 'furniture' is rejected, also
\* when its price, location and name pass.
C11_WrongCategoryRejected ==
    ( /\ xPc = "evaluated"
      /\ IsSchemaRecord(xParsed)
      /\ xParsed.category # Str(<< 102, 117, 114, 110, 105, 116, 117, 114,
                                   101 >>) )
    => xMeets = Bool(FALSE)

\* an item of category "Furniture" that passes the price, location and
\* name checks was evaluated to false
C11_Witness ==
    /\ xPc = "evaluated"
    /\ IsSchemaRecord(xParsed)
    /\ xParsed.category = Str(<< 70, 117, 114, 110, 105, 116, 117, 114,
                                 101 >>)
    /\ Truthy(priceIsRight(xParsed))
    /\ Truthy(locationIsRight(xParsed))
    /\ Truthy(nameIsRight(xParsed))
    /\ xMeets = Bool(FALSE)

\* v is a string whose lower-cased form contains one of the given strings
LowerContainsOneOf(v, subs) ==
    /\ v.t = "string"
    /\ \E sub \in subs : includes(toLowerCase(v.s), sub)

\* C12: the location check holds exactly if location is a string whose
\* lower-cased form contains 'limassol' in Latin or Cyrillic letters, and
\* an item that passes the three other checks is accepted exactly if it
\* holds.
C12_LocationSubstring ==
    (xPc = "evaluated" /\ IsSchemaRecord(xParsed))
    => /\ Truthy(locationIsRight(xParsed))
          <=> LowerContainsOneOf(xParsed.location,
                                 {S_limassol, S_limassol_ru})
       /\ ( /\ Truthy(priceIsRight(xParsed))
            /\ Truthy(categoryIsRight(xParsed))
            /\ Truthy(nameIsRight(xParsed)) )
          => ( xMeets = Bool(TRUE)
               <=> LowerContainsOneOf(xParsed.location,
                                      {S_limassol, S_limassol_ru}) )

\* an item in "Nicosia" that passes the three other checks was evaluated
\* to false
C12_Witness ==
    /\ xPc = "evaluated"
    /\ IsSchemaRecord(xParsed)
    /\ xParsed.location = Str(<< 78, 105, 99, 111, 115, 105, 97 >>)
    /\ Truthy(priceIsRight(xParsed))
    /\ Truthy(categoryIsRight(xParsed))
    /\ Truthy(nameIsRight(xParsed))
    /\ xMeets = Bool(FALSE)

\* C13: the name check holds exactly if item_name is a string whose
\* lower-cased form contains 'tv stand' or one of the two Cyrillic words,
\* and an item that passes the three other checks is accepted exactly if
\* it holds.
C13_NameSubstring ==
    (xPc = "evaluated" /\ IsSchemaRecord(xParsed))
    => /\ Truthy(nameIsRight(xParsed))
          <=> LowerContainsOneOf(xParsed.item_name,
                                 {S_tv_stand, S_tumbochka, S_televizor})
       /\ ( /\ Truthy(priceIsRight(xParsed))
            /\ Truthy(categoryIsRight(xParsed))
            /\ Truthy(locationIsRight(xParsed)) )
          => ( xMeets = Bool(TRUE)
               <=> LowerContainsOneOf(xParsed.item_name,
                                      {S_tv_stand, S_tumbochka,
                                       S_televizor}) )

\* a "Coffee Table" that passes the three other checks was evaluated to
\* false
C13_Witness ==
    /\ xPc = "evaluated"
    /\ IsSchemaRecord(xParsed)
    /\ xParsed.item_name = Str(<< 67, 111, 102, 102, 101, 101, 32, 84, 97,
                                  98, 108, 101 >>)
    /\ Truthy(priceIsRight(xParsed))
    /\ Truthy(categoryIsRight(xParsed))
    /\ Truthy(locationIsRight(xParsed))
    /\ xMeets = Bool(FALSE)

\* the oracle's response is a record with a null or blank item_name and
\* null category, price and location
NoOffer(response) ==
    /\ response.k = "resolved"
    /\ response.content.t = "json"
    /\ response.content.valid
    /\ IsSchemaRecord(response.content.value)
    /\ \/ response.content.value.item_name = Null
       \/ /\ response.content.value.item_name.t = "string"
          /\ trim(response.content.value.item_name.s) = <<>>
    /\ response.content.value.category = Null
    /\ response.content.value.price = Null
    /\ response.content.value.location = Null

\* C17: a response with a missing or blank item_name and null category,
\* price and location makes the call return no item.
C17_EmptyRecordIsAbsent ==
    ( /\ xPc \in {"returned", "evaluated"}
      /\ xCalls = 1
      /\ NoOffer(xResponse) )
    => ~Truthy(xParsed)

\* C14: for every item and every outcome of the generation oracle,
\* buildReservationMessage returns a string that is not empty and raises
\* nothing.
C14_ComposeNeverEmpty ==
    bPc = "returned"
    => /\ bMessage # Throw
       /\ bMessage.t = "string"
       /\ Len(bMessage.s) > 0

\* an item with every field null but is_free got a message after the
\* oracle call failed
C14_Witness ==
    /\ bPc = "returned"
    /\ bItem = ParsedItem(Null, Null, Null, Null, Bool(FALSE))
    /\ bResponse = Rejected
    /\ bMessage.t = "string"
    /\ Len(bMessage.s) > 0

\* the oracle answered with a text that is not empty once trimmed
HasGeneratedText(response) ==
    /\ response.k = "resolved"
    /\ response.content.t = "string"
    /\ trim(response.content.s) # <<>>

\* C15: buildReservationMessage returns the oracle's trimmed text exactly
\* when that text is not empty, and otherwise the fallback message built
\* around the item's detail fragment.
C15_TrimmedTextOrFallback ==
    bPc = "returned"
    => IF HasGeneratedText(bResponse)
       THEN bMessage = Str(trim(bResponse.content.s))
       ELSE bMessage = Str(S_fallback_head \o detailsString(bItem)
                             \o S_fallback_tail)

\* the answer " a" was returned as "a", for an item with a name
C15_Witness ==
    /\ bPc = "returned"
    /\ bResponse = Resolved(Str(<<32, 97>>))
    /\ bItem.item_name.t = "string"
    /\ bMessage = Str(<<97>>)

\* a white-space answer gave the fallback message
C15_WitnessFallback ==
    /\ bPc = "returned"
    /\ bResponse = Resolved(Str(<<32, 10>>))
    /\ bMessage = fallbackMessage(bItem)

\* the run of event e ended with a failure of client.getEntity or of
\* client.sendMessage
SendFailed(e) == pc[e] = "done" /\ outcome[e] = "SendFailed"

\* C16: a failed send ends the run without an error, a run never goes back
\* to the start of the send once client.sendMessage was called, and a
\* matching event of a sender whose earlier send failed goes to the send
\* again.
C16_FailedSendNotRetriedNotRecorded ==
    \A e \in Events :
        /\ outcome[e] = "SendFailed" => pc[e] = "done"
        /\ sendIssued[e] => pc[e] \in {"awaitSend", "done"}
        /\ \A d \in Events :
            ( /\ d # e
              /\ SendFailed(e)
              /\ senderIdOf(message[d]) = senderIdOf(message[e])
              /\ Matching(d) )
            => \/ AtSend(d)
               \/ pc[d] = "done" /\ outcome[d] \in {"Dispatched", "SendFailed"}

\* the send of the first event failed after client.sendMessage was called,
\* and client.sendMessage was called again for the next event of the sender
C16_Witness ==
    \E e, d \in Events :
        /\ e < d
        /\ SendFailed(e)
        /\ sendIssued[e]
        /\ ~delivered[e]
        /\ senderIdOf(message[d]) = senderIdOf(message[e])
        /\ Matching(d)
        /\ sendIssued[d]

\* C18: the text given to client.sendMessage for an event is what
\* buildReservationMessage returned for the event's item, so no send
\* happens without a call of it.
C18_SentTextIsComposed ==
    \A e \in Events :
        sendIssued[e]
        => /\ composeCalls[e] >= 1
           /\ \E response \in ComposeResponses :
                sentText[e] = buildResponse(parsedData[e], response)

\* C19: an event without a peer, with a peer of an unrecognised class or
\* without a sender ends Dropped, with no call of the extraction oracle and
\* no send.
C19_UnresolvedIdentityDropped ==
    \A e \in Events :
        ( /\ pc[e] # "idle"
          /\ \/ message[e].peerId.kind
                  \notin {"PeerChannel", "PeerChat", "PeerUser"}
             \/ message[e].senderId.t \in {"undefined", "null"} )
        => /\ pc[e] = "done"
           /\ outcome[e] = "Dropped"
           /\ calls[e] = 0
           /\ ~sendIssued[e]

\* an event of an unrecognised peer and an event without a sender in a
\* watched chat, both with a text, were dropped
C19_Witness ==
    \E e, d \in Events :
        /\ message[e].peerId = OtherPeer
        /\ message[e].senderId = Num(1)
        /\ message[e].text = Str(<<97>>)
        /\ pc[e] = "done" /\ outcome[e] = "Dropped" /\ calls[e] = 0
        /\ message[d].peerId = PeerChannel(5)
        /\ message[d].senderId = Undefined
        /\ message[d].text = Str(<<97>>)
        /\ pc[d] = "done" /\ outcome[d] = "Dropped" /\ calls[d] = 0

\* C20: every run that has ended did so without an uncaught error: it
\* dropped the event, suppressed it, or went through the send (delivered or
\* failed and logged).
C20_RunEndsWithoutError ==
    \A e \in Events :
        pc[e] = "done"
        => outcome[e] \in {"Dispatched", "Suppressed", "Dropped",
                           "SendFailed"}

\* a text field of a schema record holds a text that is not empty
Present(v) == v.t = "string" /\ v.s # <<>>

\* the words the detail fragment is to hold for a schema record, in
\* order; <<>> stands for a word that is left out
ExpectedWords(item) ==
    LET nameWord ==
            IF Present(item.item_name)
            THEN <<34>> \o item.item_name.s \o <<34>>
            ELSE <<>>
        priceWord ==
            IF item.is_free = Bool(TRUE) THEN S_for_free
            ELSE IF item.price.t = "number"
            THEN S_for \o toString(item.price.n)
            ELSE <<>>
        locationWord ==
            IF Present(item.location) THEN S_in \o item.location.s
            ELSE <<>>
    IN  SelectSeq(<<nameWord, priceWord, locationWord>>,
                  LAMBDA w : w # <<>>)

\* the words with one space between two neighbours
ExpectedFragment(item) ==
    LET w == ExpectedWords(item)
    IN  CASE Len(w) = 0 -> <<>>
          [] Len(w) = 1 -> w[1]
          [] Len(w) = 2 -> w[1] \o <<32>> \o w[2]
          [] OTHER -> w[1] \o <<32>> \o w[2] \o <<32>> \o w[3]

\* C21: for a schema record, the detail fragment is the quoted name if
\* the name is present, then "for free" if is_free is true (whatever the
\* price) or "for <price>" if is_free is false and the price is a number,
\* then "in <location>" if the location is present, joined by single
\* spaces; an absent field adds no text.
C21_DetailFragment ==
    (bPc # "call" /\ IsSchemaRecord(bItem))
    => bDetails = Str(ExpectedFragment(bItem))

\* a free item with the price 20 got
\* "\"Old TV Stand\" for free in Nicosia"
C21_Witness ==
    /\ bPc = "returned"
    /\ bItem.is_free = Bool(TRUE)
    /\ bItem.price = Num(20)
    /\ bDetails =
         Str(<< 34, 79, 108, 100, 32, 84, 86, 32, 83, 116, 97, 110, 100,
                34, 32, 102, 111, 114, 32, 102, 114, 101, 101, 32, 105,
                110, 32, 78, 105, 99, 111, 115, 105, 97 >>)

\* an item with neither name nor location and the price 20 got "for 20"
C21_WitnessPriceOnly ==
    /\ bPc = "returned"
    /\ bItem.item_name = Null
    /\ bItem.location = Str(<<>>)
    /\ bItem.is_free = Bool(FALSE)
    /\ bDetails = Str(<< 102, 111, 114, 32, 50, 48 >>)

\* an item with a textual price and no other field got the empty fragment
C21_WitnessEmpty ==
    /\ bPc = "returned"
    /\ bItem.item_name = Null
    /\ bItem.price.t = "string"
    /\ bItem.location = Null
    /\ bItem.is_free = Bool(FALSE)
    /\ bDetails = Str(<<>>)

\* how a run ends when its event is the only one: early tells that a
\* filter dropped the message, meets is the result of the criteria for the
\* oracle's answer, sent tells that client.sendMessage succeeded
SoloOutcome(early, meets, sent) ==
    IF early THEN "Dropped"
    ELSE IF meets = Throw THEN "Raised"
    ELSE IF meets # Bool(TRUE) THEN "Dropped"
    ELSE IF sent THEN "Dispatched"
    ELSE "SendFailed"

\* events a and b were delivered and come from two different senders
DifferentSenders(a, b) ==
    /\ a # b
    /\ pc[a] # "idle" /\ pc[b] # "idle"
    /\ senderIdOf(message[a]) # senderIdOf(message[b])

\* the run of b is where a run of b alone would be: its outcome, its
\* oracle call and its send follow from its own message, oracle answer and
\* send outcome
AsIfAlone(b) ==
    LET early == returnsEarly(message[b])
        meets == IF early THEN Bool(FALSE)
                 ELSE meetsCriteria(parsedData[b])
        matching == meets = Bool(TRUE)
    IN  /\ pc[b] = "done"
           => outcome[b] = SoloOutcome(early, meets, delivered[b])
        /\ pc[b] # "done" => outcome[b] = "none"
        /\ calls[b] = IF early \/ isBlank(message[b].text) THEN 0 ELSE 1
        /\ matching => AtSend(b) \/ pc[b] = "done"
        /\ sendIssued[b] => matching
        /\ sentText[b] =
             IF sendIssued[b] THEN reservationMessage ELSE Undefined
        /\ delivered[b] => sendIssued[b]

\* C22: for events of two different senders, whatever the other's run has
\* done, the outcome of one and whether a send is issued for it are what
\* its own message, oracle answer and send outcome give in a run without
\* the other.
C22_SendersIndependent ==
    \A b \in Events :
        (\E a \in Events : DifferentSenders(a, b)) => AsIfAlone(b)

\* two matching events of two different senders are both suspended after
\* client.sendMessage was called for each
C22_Witness ==
    \E a, b \in Events :
        /\ DifferentSenders(a, b)
        /\ Matching(a) /\ Matching(b)
        /\ pc[a] = "awaitSend" /\ pc[b] = "awaitSend"
        /\ sendIssued[a] /\ sendIssued[b]

\* the conversation identifier the three shapes are to get: the integer
\* written "-100" before the digits of a channel's id, the negated id of
\* a group, the id of a user
ExpectedConversationId(peerId) ==
    CASE peerId.kind = "PeerChannel" ->
            0 - (100 * 10 ^ Len(toString(peerId.id)) + peerId.id)
      [] peerId.kind = "PeerChat" -> 0 - peerId.id
      [] peerId.kind = "PeerUser" -> peerId.id

\* event e was delivered with a peer of one of the three shapes
Resolvable(e) == pc[e] # "idle" /\ isKnownPeer(message[e].peerId)

\* C23: the chatId of a channel, a group and a user is the integer
\* "-100" + digits, the negated id and the id, and two events whose peers
\* differ in shape or in id never get the same chatId.
C23_NormalizationInjective ==
    \A d, e \in Events :
        (Resolvable(d) /\ Resolvable(e))
        => /\ chatIdOf(message[e].peerId)
                = ExpectedConversationId(message[e].peerId)
           /\ message[d].peerId # message[e].peerId
              => chatIdOf(message[d].peerId) # chatIdOf(message[e].peerId)

====
